---------------------------- MODULE Spec2Model ----------------------------
(***************************************************************************)
(* Model of the experiment orchestration of MLP_bins:                      *)
(*   src/src/Experiment.py  Experiment.train, _train_single_epoch,         *)
(*                          do_measurements_on_checkpoints, do_measurements*)
(*   src/src/main.py        run_experiment                                 *)
(*                                                                         *)
(* One run directory is followed over several processes: each process      *)
(* constructs an Experiment, calls train() and then                        *)
(* do_measurements_on_checkpoints() (main.py:15-19).  A process may be     *)
(* killed at any point of the two loops and main.py may be started again   *)
(* on the same run directory (Logger(..., use_existing=True)).             *)
(*                                                                         *)
(* The network parameters are abstracted by the history of gradient steps  *)
(* that produced them: [done, part, ok] stands for "epochs 0..done-1 fully *)
(* applied, part batches of epoch done applied"; ok = FALSE stands for any *)
(* other history (an epoch applied twice, skipped or out of order).        *)
(***************************************************************************)
EXTENDS Integers, Sequences, FiniteSets, TLC

(***************************************************************************)
(* Bounds of the model.                                                    *)
(***************************************************************************)
MaxEpochs == 3        \* small configurations: max_epochs in 0..MaxEpochs

NumBatches == 2       \* len(dataset.train_loader)

NumMeasurers == 2     \* len(self.measures)

(***************************************************************************)
(* Program constants.                                                      *)
(***************************************************************************)
PadWidth == 3         \* f'{epoch:0>3}.tar'

priority_checkpoints == <<600, 300, 100, 10, 1, 0>>

\* ".tar" as character codes
TarSuffix == <<46, 116, 97, 114>>

(***************************************************************************)
(* Strings are sequences of character codes, compared as Python compares   *)
(* str values.                                                             *)
(***************************************************************************)
RECURSIVE Digits(_)
Digits(n) == IF n < 10 THEN <<48 + n>> ELSE Digits(n \div 10) \o <<48 + (n % 10)>>

RECURSIVE PadLeft(_, _)
PadLeft(s, w) == IF Len(s) >= w THEN s ELSE PadLeft(<<48>> \o s, w)

\* f'{epoch:0>3}.tar': at least PadWidth digits, zero-filled on the left
FileName(e) == PadLeft(Digits(e), PadWidth) \o TarSuffix

\* str.endswith
EndsWith(s, suf) ==
    /\ Len(suf) <= Len(s)
    /\ SubSeq(s, Len(s) - Len(suf) + 1, Len(s)) = suf

\* str.__lt__: lexicographic order on character codes
RECURSIVE LexLess(_, _)
LexLess(a, b) ==
    IF a = << >> THEN b # << >>
    ELSE IF b = << >> THEN FALSE
    ELSE IF Head(a) # Head(b) THEN Head(a) < Head(b)
    ELSE LexLess(Tail(a), Tail(b))

Range(s) == {s[i] : i \in 1..Len(s)}

SetMax(S) == CHOOSE x \in S : \A y \in S : y <= x

\* sorted(paths): ascending in str order
RECURSIVE Sorted(_)
Sorted(paths) ==
    IF paths = {} THEN << >>
    ELSE LET lo == CHOOSE p \in paths : \A q \in paths : q = p \/ LexLess(p, q)
         IN  <<lo>> \o Sorted(paths \ {lo})

\* train(): sorted(self.logger.get_all_saved_model_paths())[-1]
LatestCheckpointPath(paths) ==
    LET s == Sorted(Range(paths)) IN s[Len(s)]

(***************************************************************************)
(* Configurations (immutable after construction).                          *)
(***************************************************************************)
SmallConfigs ==
    { [max_epochs |-> m, log_epochs |-> L] :
        m \in 0..MaxEpochs, L \in SUBSET (0..MaxEpochs) }

\* The first max_epochs whose final checkpoint name has more digits than the
\* zero-padded width, with a log epoch just below it.
WideEpoch == 10 ^ PadWidth

LongConfigs ==
    { [max_epochs |-> WideEpoch, log_epochs |-> {WideEpoch - 1}] }

Configs == SmallConfigs \cup LongConfigs

(***************************************************************************)
(* Model and optimizer state.                                              *)
(***************************************************************************)
FreshModel == [done |-> 0, part |-> 0, ok |-> TRUE]

\* The state entering epoch e: epochs 0..e-1 applied, nothing of epoch e.
Entering(e) == [done |-> e, part |-> 0, ok |-> TRUE]

\* optimizer.step() of one batch of epoch e (Experiment.py:90-94)
ApplyBatch(m, e) ==
    IF m.ok /\ m.done = e /\ m.part < NumBatches
    THEN IF m.part + 1 = NumBatches
         THEN [done |-> e + 1, part |-> 0, ok |-> TRUE]
         ELSE [m EXCEPT !.part = m.part + 1]
    ELSE [done |-> 0, part |-> 0, ok |-> FALSE]

(***************************************************************************)
(* The checkpoint store (Logger): a directory of files, each holding the   *)
(* epoch, the model state and the optimizer/scheduler state.               *)
(***************************************************************************)
NoFiles == [p \in {} |-> 0]

\* Logger.save_model(model, epoch, wrapped_optimizer): writes (or rewrites) the file
SaveModel(d, e, m, l) ==
    [p \in (DOMAIN d) \cup {FileName(e)} |->
        IF p = FileName(e) THEN [epoch |-> e, model |-> m, lr |-> l] ELSE d[p]]

\* Logger.get_all_saved_model_paths(): the saved checkpoints, ordered by epoch
RECURSIVE PathsByEpoch(_, _)
PathsByEpoch(d, S) ==
    IF S = {} THEN << >>
    ELSE LET lo == CHOOSE p \in S : \A q \in S : d[p].epoch <= d[q].epoch
         IN  <<lo>> \o PathsByEpoch(d, S \ {lo})

GetAllSavedModelPaths(d) == PathsByEpoch(d, DOMAIN d)

SavedEpochs(d) == {d[p].epoch : p \in DOMAIN d}

VARIABLES
    cfg,            \* the run's configuration
    pc,             \* position of the current process
    start_epoch,    \* train(): start_epoch
    epoch,          \* train(): the loop variable
    batch,          \* _train_single_epoch(): batches done in this epoch
    loss_nan,       \* loss.isnan() of the last batch
    model,          \* wrapped_model parameters (in memory)
    lr,             \* lr_scheduler steps taken (optimizer state, in memory)
    disk,           \* the run directory's checkpoints
    train_status,   \* this process's train() call: none/running/returned/noop/raised
    complete,       \* some train() call on this run has returned
    resaved,        \* save_model was called for an epoch that had a checkpoint
    order,          \* do_measurements_on_checkpoints(): model_path_list as iterated
    ci,             \* checkpoints whose do_measurements() call has finished
    visited,        \* epochs of the checkpoints loaded for measurement, in order
    meas_epoch,     \* do_measurements(): epoch
    mi,             \* do_measurements(): measurers run for this checkpoint
    results,        \* the records those measurers returned
    all_measurements, \* do_measurements(): all_measurements
    sink,           \* the mapping last given to logger.write_to_measurements
    writes,         \* write_to_measurements calls of this process
    shared_cache,   \* do_measurements(): shared_cache, the entries written to it
    cache_seen,     \* the cache contents the last measurer was called with
    measures_setting, \* measurements_cfg['measures']
    measures,       \* self.measures: the measurer names, in dict order
    config_copied,  \* logger.copy_config_to_dir() has run
    sub             \* main(): the state of a matrix submission

trainVars == <<start_epoch, epoch, batch, loss_nan, lr, train_status>>

measVars == <<order, ci, visited, meas_epoch, mi, results, all_measurements, sink, writes,
              shared_cache, cache_seen>>

ctorVars == <<measures_setting, measures, config_copied>>

vars == <<cfg, pc, start_epoch, epoch, batch, loss_nan, model, lr, disk,
          train_status, complete, resaved, order, ci, visited, meas_epoch, mi,
          results, all_measurements, sink, writes, shared_cache, cache_seen,
          measures_setting, measures, config_copied, sub>>

(***************************************************************************)
(* Experiment.__init__, lines 48-62: the measurers to run.  Measurer names *)
(* are numbers; the Measurer module knows the names 1..NumMeasurers.  A    *)
(* 'measures' setting is a boolean, a string (character codes) or a        *)
(* collection of names.                                                    *)
(***************************************************************************)
Str_fast == <<102, 97, 115, 116>>

Str_slow == <<115, 108, 111, 119>>

\* str.lower() on ASCII letters
Lower(str) == [i \in 1..Len(str) |-> IF str[i] \in 65..90 THEN str[i] + 32 ELSE str[i]]

Ascending(n) == [i \in 1..n |-> i]

\* Measurer.ALL_MEASURES, FAST_MEASURES, SLOW_MEASURES
ALL_MEASURES == Ascending(NumMeasurers)

FAST_MEASURES == <<1>>

SLOW_MEASURES == <<NumMeasurers>>

\* hasattr(Measurer, name)
KnownMeasure(name) == name \in 1..NumMeasurers

\* the keys of a dict built from the names in order: a repeated name keeps its
\* first place
RECURSIVE DictKeys(_)
DictKeys(names) ==
    IF names = << >> THEN << >>
    ELSE LET front == DictKeys(SubSeq(names, 1, Len(names) - 1))
             last == names[Len(names)]
         IN  IF last \in Range(front) THEN front ELSE Append(front, last)

BoolSetting(b) == [kind |-> "bool", val |-> b]

StrSetting(str) == [kind |-> "str", val |-> str]

ListSetting(names) == [kind |-> "list", val |-> names]

RECURSIVE AscendingSeq(_)
AscendingSeq(S) ==
    IF S = {} THEN << >>
    ELSE LET lo == CHOOSE x \in S : \A y \in S : x <= y
         IN  <<lo>> \o AscendingSeq(S \ {lo})

\* "fast", "slow", "Fast", "SLOW", "all", "" and "fastest"
SettingStrings ==
    { Str_fast, Str_slow, <<70, 97, 115, 116>>, <<83, 76, 79, 87>>,
      <<97, 108, 108>>, << >>, Str_fast \o <<101, 115, 116>> }

\* collections of known names and of one unknown name, in several orders
SettingLists ==
    { AscendingSeq(S) : S \in SUBSET (1..(NumMeasurers + 1)) }
        \cup { [i \in 1..NumMeasurers |-> NumMeasurers + 1 - i], <<1, 1>> }

Settings ==
    { BoolSetting(b) : b \in BOOLEAN }
        \cup { StrSetting(str) : str \in SettingStrings }
        \cup { ListSetting(names) : names \in SettingLists }

Raised == [ok |-> FALSE, names |-> << >>]

Resolved(names) == [ok |-> TRUE, names |-> names]

\* lines 61-62: one measurer object per name; getattr raises on an unknown name, and
\* iterating a value that is no collection raises
InstantiateMeasures(setting) ==
    IF setting.kind = "list" /\ \A i \in 1..Len(setting.val) : KnownMeasure(setting.val[i])
    THEN Resolved(DictKeys(setting.val))
    ELSE Raised

\* an unknown preset string falls back to all measurers
ResolveMeasures_Lenient(setting) ==
    IF setting.kind = "bool" /\ setting.val = TRUE
    THEN InstantiateMeasures(ListSetting(ALL_MEASURES))
    ELSE IF setting.kind = "str"
    THEN IF Lower(setting.val) = Str_fast
         THEN InstantiateMeasures(ListSetting(FAST_MEASURES))
         ELSE IF Lower(setting.val) = Str_slow
         THEN InstantiateMeasures(ListSetting(SLOW_MEASURES))
         ELSE InstantiateMeasures(ListSetting(ALL_MEASURES))
    ELSE InstantiateMeasures(setting)

\* lines 49-62
ResolveMeasures(setting) ==
    IF setting.kind = "bool" /\ setting.val = TRUE
    THEN InstantiateMeasures(ListSetting(ALL_MEASURES))
    ELSE IF setting.kind = "str"
    THEN IF Lower(setting.val) = Str_fast
         THEN InstantiateMeasures(ListSetting(FAST_MEASURES))
         ELSE IF Lower(setting.val) = Str_slow
         THEN InstantiateMeasures(ListSetting(SLOW_MEASURES))
         ELSE Raised
    ELSE InstantiateMeasures(setting)

\* no matrix submission is in progress
NoSubmission == [stage |-> "none"]

\* the state a successful construction with measures: true leaves
Init ==
    /\ cfg \in Configs
    /\ pc = "constructed"
    /\ start_epoch = 0
    /\ epoch = 0
    /\ batch = 0
    /\ loss_nan = FALSE
    /\ model = FreshModel
    /\ lr = 0
    /\ disk = NoFiles
    /\ train_status = "none"
    /\ complete = FALSE
    /\ resaved = FALSE
    /\ order = << >>
    /\ ci = 0
    /\ visited = << >>
    /\ meas_epoch = 0
    /\ mi = 0
    /\ results = << >>
    /\ all_measurements = << >>
    /\ sink = << >>
    /\ writes = 0
    /\ shared_cache = {}
    /\ cache_seen = {}
    /\ measures_setting = BoolSetting(TRUE)
    /\ measures = ALL_MEASURES
    /\ config_copied = TRUE
    /\ sub = NoSubmission

(***************************************************************************)
(* Experiment.train, lines 108-126: resume from the latest checkpoint.     *)
(***************************************************************************)
\* the resume forgets to hand the model to load_model: the parameters stay as built
LoadedModel_NotRestored(ck, m) == m

\* lines 112-114: load_model(..., ret_model=self.wrapped_model, ...) restores the
\* parameters held by the checkpoint into the model m
LoadedModel(ck, m) == ck.model

Train ==
    /\ pc = "constructed"
    /\ train_status = "none"
    /\ LET paths == GetAllSavedModelPaths(disk) IN
       IF paths # << >>
       THEN LET ck == disk[LatestCheckpointPath(paths)] IN
            /\ model' = LoadedModel(ck, model)
            /\ lr' = ck.lr
            /\ start_epoch' = ck.epoch
            /\ IF ck.epoch >= cfg.max_epochs
               THEN /\ pc' = "trained"
                    /\ train_status' = "noop"
                    /\ complete' = TRUE
                    /\ UNCHANGED epoch
               ELSE /\ pc' = "loop"
                    /\ train_status' = "running"
                    /\ epoch' = ck.epoch
                    /\ UNCHANGED complete
       ELSE /\ start_epoch' = 0
            /\ epoch' = 0
            /\ pc' = "loop"
            /\ train_status' = "running"
            /\ UNCHANGED <<model, lr, complete>>
    /\ UNCHANGED <<cfg, batch, loss_nan, disk, resaved>>
    /\ UNCHANGED measVars
    /\ UNCHANGED <<ctorVars, sub>>

(***************************************************************************)
(* Experiment.train, lines 127-130: the loop head; a checkpoint is saved   *)
(* at a log epoch before the epoch's updates.                              *)
(***************************************************************************)
EpochBegin ==
    /\ pc = "loop"
    /\ epoch < cfg.max_epochs
    /\ IF epoch \in cfg.log_epochs
       THEN /\ disk' = SaveModel(disk, epoch, model, lr)
            /\ resaved' = (resaved \/ FileName(epoch) \in DOMAIN disk)
       ELSE UNCHANGED <<disk, resaved>>
    /\ batch' = 0
    /\ pc' = "batch"
    /\ UNCHANGED <<cfg, start_epoch, epoch, loss_nan, model, lr, train_status, complete>>
    /\ UNCHANGED measVars
    /\ UNCHANGED <<ctorVars, sub>>

(***************************************************************************)
(* Experiment._train_single_epoch, lines 83-104: one batch.  The gradient  *)
(* step is taken before the loss is tested.                                *)
(***************************************************************************)
\* the test of the loss is lost: training goes on with a not-a-number loss
Diverged_Ignored(nan) == FALSE

\* line 97: if loss.isnan()
Diverged(nan) == nan

Batch ==
    /\ pc = "batch"
    /\ batch < NumBatches
    /\ \E nan \in BOOLEAN :
        /\ model' = ApplyBatch(model, epoch)
        /\ loss_nan' = nan
        /\ IF Diverged(nan)
           THEN /\ pc' = "aborted"
                /\ train_status' = "raised"
                /\ UNCHANGED batch
           ELSE /\ batch' = batch + 1
                /\ UNCHANGED <<pc, train_status>>
    /\ UNCHANGED <<cfg, start_epoch, epoch, lr, disk, complete, resaved>>
    /\ UNCHANGED measVars
    /\ UNCHANGED <<ctorVars, sub>>

\* the schedule is not stepped after an epoch whose checkpoint was saved
EpochEnd_NoStepAfterSave ==
    /\ pc = "batch"
    /\ batch = NumBatches
    /\ lr' = IF epoch \in cfg.log_epochs THEN lr ELSE lr + 1
    /\ epoch' = epoch + 1
    /\ pc' = "loop"
    /\ UNCHANGED <<cfg, start_epoch, batch, loss_nan, model, disk, train_status,
                   complete, resaved>>
    /\ UNCHANGED measVars
    /\ UNCHANGED <<ctorVars, sub>>

(***************************************************************************)
(* Experiment.train, lines 132-135: _train_single_epoch returns, the       *)
(* learning-rate schedule steps, the loop goes to the next epoch.          *)
(***************************************************************************)
EpochEnd ==
    /\ pc = "batch"
    /\ batch = NumBatches
    /\ lr' = lr + 1
    /\ epoch' = epoch + 1
    /\ pc' = "loop"
    /\ UNCHANGED <<cfg, start_epoch, batch, loss_nan, model, disk, train_status,
                   complete, resaved>>
    /\ UNCHANGED measVars
    /\ UNCHANGED <<ctorVars, sub>>

\* train() returns after the loop without the final checkpoint
TrainFinish_NoFinalSave ==
    /\ pc = "loop"
    /\ epoch >= cfg.max_epochs
    /\ pc' = "trained"
    /\ train_status' = "returned"
    /\ complete' = TRUE
    /\ UNCHANGED <<cfg, start_epoch, epoch, batch, loss_nan, model, lr, disk, resaved>>
    /\ UNCHANGED measVars
    /\ UNCHANGED <<ctorVars, sub>>

(***************************************************************************)
(* Experiment.train, line 137: the final checkpoint, after the loop.       *)
(***************************************************************************)
TrainFinish ==
    /\ pc = "loop"
    /\ epoch >= cfg.max_epochs
    /\ disk' = SaveModel(disk, cfg.max_epochs, model, lr)
    /\ resaved' = (resaved \/ FileName(cfg.max_epochs) \in DOMAIN disk)
    /\ pc' = "trained"
    /\ train_status' = "returned"
    /\ complete' = TRUE
    /\ UNCHANGED <<cfg, start_epoch, epoch, batch, loss_nan, model, lr>>
    /\ UNCHANGED measVars
    /\ UNCHANGED <<ctorVars, sub>>

(***************************************************************************)
(* do_measurements_on_checkpoints, lines 144-151: the reordering.  A       *)
(* Python for loop over a list reads list[i] for i = 0, 1, ... until i     *)
(* reaches the list's current length, whatever the body does to the list.  *)
(***************************************************************************)
\* list.remove(x): without the first element equal to x
RECURSIVE ListRemove(_, _)
ListRemove(l, x) ==
    IF l = << >> THEN << >>
    ELSE IF Head(l) = x THEN Tail(l)
    ELSE <<Head(l)>> \o ListRemove(Tail(l), x)

\* the path is removed and not appended again
MoveToEnd_Dropped(l, path) == ListRemove(l, path)

\* lines 148-149
MoveToEnd(l, path) == Append(ListRemove(l, path), path)

\* lines 146-150, from list index i (1-based here)
RECURSIVE InnerLoop(_, _, _)
InnerLoop(l, i, suffix) ==
    IF i > Len(l) THEN l
    ELSE IF EndsWith(l[i], suffix)
         THEN InnerLoop(MoveToEnd(l, l[i]), i + 1, suffix)
         ELSE InnerLoop(l, i + 1, suffix)

\* line 145: for epoch in reversed(priority_checkpoints), from index k down
RECURSIVE OuterLoop(_, _)
OuterLoop(l, k) ==
    IF k = 0 THEN l
    ELSE OuterLoop(InnerLoop(l, 1, FileName(priority_checkpoints[k])), k - 1)

Reverse(l) == [i \in 1..Len(l) |-> l[Len(l) + 1 - i]]

\* lines 141-151
ReorderedPaths(paths) == Reverse(OuterLoop(paths, Len(priority_checkpoints)))

(***************************************************************************)
(* run_experiment, main.py:15-19: measurement follows train()'s return.    *)
(***************************************************************************)
\* train()'s exception is caught and the measurements are run all the same
CanMeasure_AfterAbort == pc \in {"trained", "aborted"}

CanMeasure == pc = "trained"

DoMeasurementsOnCheckpoints ==
    /\ CanMeasure
    /\ order' = ReorderedPaths(GetAllSavedModelPaths(disk))
    /\ ci' = 0
    /\ visited' = << >>
    /\ pc' = "checkpoints"
    /\ UNCHANGED <<cfg, model, disk, complete, resaved>>
    /\ UNCHANGED trainVars
    /\ UNCHANGED <<meas_epoch, mi, results, all_measurements, sink, writes,
                   shared_cache, cache_seen>>
    /\ UNCHANGED <<ctorVars, sub>>

(***************************************************************************)
(* Lines 153-155 and 162-165: load the next checkpoint, enter              *)
(* do_measurements(epoch) with an empty all_measurements.                  *)
(***************************************************************************)
\* one cache object is made at construction and handed to every call
FreshCache_Kept(old) == old

\* line 163: shared_cache = Measurer.SharedMeasurementVarsCache()
FreshCache(old) == {}

LoadCheckpoint ==
    /\ pc = "checkpoints"
    /\ ci < Len(order)
    /\ LET ck == disk[order[ci + 1]] IN
        /\ model' = ck.model
        /\ meas_epoch' = ck.epoch
        /\ visited' = Append(visited, ck.epoch)
    /\ mi' = 0
    /\ results' = << >>
    /\ all_measurements' = << >>
    /\ shared_cache' = FreshCache(shared_cache)
    /\ pc' = "measure"
    /\ UNCHANGED <<cfg, disk, complete, resaved, order, ci, sink, writes, cache_seen>>
    /\ UNCHANGED trainVars
    /\ UNCHANGED <<ctorVars, sub>>

(***************************************************************************)
(* do_measurements, lines 167-184: one measurer.  A record is abstracted   *)
(* by its number of rows (0 or more) and whether it has a 'value' column.  *)
(***************************************************************************)
Records == [rows : {0, 1}, value : BOOLEAN]

\* the assert is dropped
RecordIsGood_Unchecked(rec) == TRUE

\* line 174: the assert's condition
RecordIsGood(rec) == rec.value \/ rec.rows = 0

\* the test for an empty record is dropped: every good record is stored
RecordIsEmpty_Never(rec) == FALSE

\* line 176: not len(measurement_result_df)
RecordIsEmpty(rec) == rec.rows = 0

\* the epoch is tested for truth, so epoch 0 gets no epoch column
StampRecord_Truthy(name, e) ==
    IF e # 0 THEN [id |-> name, epoch |-> e] ELSE [id |-> name]

\* lines 181-184: the record stored under the measurer's name, with its epoch
\* column (do_measurements_on_checkpoints always passes an epoch)
StampRecord(name, e) == [id |-> name, epoch |-> e]

\* measurer.measure(model, dataset, shared_cache=shared_cache) leaves its
\* intermediate results in the cache
CacheEntry(name, e) == [by |-> name, at |-> e]

Measure ==
    /\ pc = "measure"
    /\ mi < Len(measures)
    /\ cache_seen' = shared_cache
    /\ shared_cache' = shared_cache \cup {CacheEntry(measures[mi + 1], meas_epoch)}
    /\ \E rec \in Records :
        /\ results' = Append(results, rec)
        /\ mi' = mi + 1
        /\ IF ~RecordIsGood(rec)
           THEN /\ pc' = "aborted"
                /\ UNCHANGED all_measurements
           ELSE /\ pc' = "measure"
                /\ IF RecordIsEmpty(rec)
                   THEN UNCHANGED all_measurements
                   ELSE all_measurements' =
                            Append(all_measurements,
                                   StampRecord(measures[mi + 1], meas_epoch))
    /\ UNCHANGED <<cfg, model, disk, complete, resaved, order, ci, visited,
                   meas_epoch, sink, writes>>
    /\ UNCHANGED trainVars
    /\ UNCHANGED <<ctorVars, sub>>

(***************************************************************************)
(* do_measurements, line 186, and the return to the checkpoint loop.       *)
(***************************************************************************)
WriteMeasurements ==
    /\ pc = "measure"
    /\ mi = Len(measures)
    /\ sink' = all_measurements
    /\ writes' = writes + 1
    /\ ci' = ci + 1
    /\ pc' = "checkpoints"
    /\ UNCHANGED <<cfg, model, disk, complete, resaved, order, visited, meas_epoch,
                   mi, results, all_measurements, shared_cache, cache_seen>>
    /\ UNCHANGED trainVars
    /\ UNCHANGED <<ctorVars, sub>>

\* the checkpoint loop of line 153 is exhausted: run_experiment returns
MeasurementsDone ==
    /\ pc = "checkpoints"
    /\ ci = Len(order)
    /\ pc' = "done"
    /\ UNCHANGED <<cfg, model, disk, complete, resaved>>
    /\ UNCHANGED trainVars
    /\ UNCHANGED measVars
    /\ UNCHANGED <<ctorVars, sub>>

(***************************************************************************)
(* The environment: the process is killed inside one of the loops (its     *)
(* memory is lost, the run directory stays), and main.py is started again  *)
(* on the same run directory, which constructs a new Experiment.           *)
(***************************************************************************)
ProcessMemoryInit ==
    /\ start_epoch' = 0
    /\ epoch' = 0
    /\ batch' = 0
    /\ loss_nan' = FALSE
    /\ model' = FreshModel
    /\ lr' = 0
    /\ train_status' = "none"
    /\ order' = << >>
    /\ ci' = 0
    /\ visited' = << >>
    /\ meas_epoch' = 0
    /\ mi' = 0
    /\ results' = << >>
    /\ all_measurements' = << >>
    /\ sink' = << >>
    /\ writes' = 0
    /\ shared_cache' = {}
    /\ cache_seen' = {}

Interrupt ==
    /\ pc \in {"loop", "batch", "checkpoints", "measure"}
    /\ pc' = "killed"
    /\ ProcessMemoryInit
    /\ UNCHANGED <<cfg, disk, complete, resaved>>
    /\ UNCHANGED <<ctorVars, sub>>

Restart ==
    /\ pc \in {"killed", "aborted", "done"}
    /\ pc' = "constructed"
    /\ ProcessMemoryInit
    /\ UNCHANGED <<cfg, disk, complete, resaved>>
    /\ UNCHANGED <<ctorVars, sub>>

Next ==
    \/ Train
    \/ EpochBegin
    \/ Batch
    \/ EpochEnd
    \/ TrainFinish
    \/ DoMeasurementsOnCheckpoints
    \/ LoadCheckpoint
    \/ Measure
    \/ WriteMeasurements
    \/ MeasurementsDone
    \/ Interrupt
    \/ Restart

Spec == Init /\ [][Next]_vars

(***************************************************************************)
(* The measurement pass on its own, over every set of checkpoints a        *)
(* completed training run can leave: the run with log_epochs = S \ {max S} *)
(* and max_epochs = max S leaves exactly the checkpoints S, each holding   *)
(* the state entering its epoch.                                           *)
(***************************************************************************)
OrderEpochs == {0, 1, 5, 10, 50, 100, 300, 600, 1000, 1100}

RECURSIVE DiskOf(_)
DiskOf(S) ==
    IF S = {} THEN NoFiles
    ELSE LET e == CHOOSE x \in S : TRUE
         IN  SaveModel(DiskOf(S \ {e}), e, Entering(e), e)

InitOrder ==
    /\ \E S \in (SUBSET OrderEpochs) \ {{}} :
        /\ cfg = [max_epochs |-> SetMax(S), log_epochs |-> S \ {SetMax(S)}]
        /\ disk = DiskOf(S)
        /\ start_epoch = 0
        /\ epoch = SetMax(S)
        /\ model = Entering(SetMax(S))
        /\ lr = SetMax(S)
    /\ pc = "trained"
    /\ batch = 0
    /\ loss_nan = FALSE
    /\ train_status = "returned"
    /\ complete = TRUE
    /\ resaved = FALSE
    /\ order = << >>
    /\ ci = 0
    /\ visited = << >>
    /\ meas_epoch = 0
    /\ mi = 0
    /\ results = << >>
    /\ all_measurements = << >>
    /\ sink = << >>
    /\ writes = 0
    /\ shared_cache = {}
    /\ cache_seen = {}
    /\ measures_setting = BoolSetting(TRUE)
    /\ measures = ALL_MEASURES
    /\ config_copied = TRUE
    /\ sub = NoSubmission

NextOrder ==
    \/ DoMeasurementsOnCheckpoints
    \/ LoadCheckpoint
    \/ Measure
    \/ WriteMeasurements
    \/ MeasurementsDone

SpecOrder == InitOrder /\ [][NextOrder]_vars

(***************************************************************************)
(* Experiment.__init__, lines 27-65, as a step: main.py:15.  The measurers *)
(* are resolved before the configuration is copied to the run directory    *)
(* (line 65); an exception leaves run_experiment before train().           *)
(***************************************************************************)
Construct ==
    /\ pc = "start"
    /\ LET r == ResolveMeasures(measures_setting) IN
       IF r.ok
       THEN /\ measures' = r.names
            /\ config_copied' = TRUE
            /\ pc' = "constructed"
       ELSE /\ pc' = "config_error"
            /\ UNCHANGED <<measures, config_copied>>
    /\ UNCHANGED <<cfg, model, disk, complete, resaved, measures_setting, sub>>
    /\ UNCHANGED trainVars
    /\ UNCHANGED measVars

\* runs with few epochs: the construction does not read max_epochs or log_epochs
ConstructConfigs ==
    { c \in SmallConfigs : c.max_epochs <= 1 /\ c.log_epochs \subseteq {0} }

InitConstruct ==
    /\ cfg \in ConstructConfigs
    /\ measures_setting \in Settings
    /\ measures = << >>
    /\ config_copied = FALSE
    /\ pc = "start"
    /\ start_epoch = 0
    /\ epoch = 0
    /\ batch = 0
    /\ loss_nan = FALSE
    /\ model = FreshModel
    /\ lr = 0
    /\ disk = NoFiles
    /\ train_status = "none"
    /\ complete = FALSE
    /\ resaved = FALSE
    /\ order = << >>
    /\ ci = 0
    /\ visited = << >>
    /\ meas_epoch = 0
    /\ mi = 0
    /\ results = << >>
    /\ all_measurements = << >>
    /\ sink = << >>
    /\ writes = 0
    /\ shared_cache = {}
    /\ cache_seen = {}
    /\ sub = NoSubmission

NextConstruct == Construct \/ Next

SpecConstruct == InitConstruct /\ [][NextConstruct]_vars

(***************************************************************************)
(* main(): the matrix submission (python main.py -c matrix.yaml -s).       *)
(* slurm_utils and Logger.SaveDirs are collaborators; a path is the        *)
(* sequence of its components.                                             *)
(***************************************************************************)
MaxFirstAxis == 3

MaxSecondAxis == 2

\* the timestamps a submission can see while it runs
MaxTicks == 2

Component(kind, v) == [kind |-> kind, v |-> v]

RootDir == <<Component("root", 0)>>

ParentSavedir == <<Component("parent", 0)>>

\* os.path.join with a relative second path
Join(a, b) == a \o b

\* os.path.relpath for a path below start
RelPath(path, start) ==
    IF Len(start) <= Len(path) /\ SubSeq(path, 1, Len(start)) = start
    THEN SubSeq(path, Len(start) + 1, Len(path))
    ELSE <<Component("up", Len(start))>> \o path

\* the relative save directory of the run with the i-th value of the first axis
\* and the j-th value of the second
RelSavedir(i, j) == <<Component("axis1", i), Component("axis2", j)>>

\* slurm_utils.parse_config_matrix: one pair (config_dict, rel_savedir) for every
\* combination of axis values
ParseConfigMatrix(axes) ==
    [k \in 1..(axes[1] * axes[2]) |->
        LET i == ((k - 1) \div axes[2]) + 1
            j == ((k - 1) % axes[2]) + 1
        IN [config |-> <<i, j>>, rel_savedir |-> RelSavedir(i, j)]]

NoSaveDirs == [root_dir |-> << >>, base |-> << >>]

\* Logger.SaveDirs(parent_savedir, timestamp_subdir=True), made at time now
SaveDirs(parent_savedir, now) ==
    [root_dir |-> RootDir,
     base |-> Join(Join(RootDir, parent_savedir), <<Component("stamp", now)>>)]

RunBase_Restamped(s) == SaveDirs(ParentSavedir, s.now).base

\* base_savedir.base, the directory the runs of this submission are put under
RunBase(s) == s.base_savedir.base

SubmitReady_InLoop(s) == s.stage = "materializing" /\ s.idx >= 1 /\ s.step = "conf"

\* the for loop of main() has ended
SubmitReady(s) == s.stage = "materializing" /\ s.idx = Len(s.configs_with_path)

StartSubmission(axes) ==
    [stage |-> "start", axes |-> axes, now |-> 0, configs_with_path |-> << >>,
     base_savedir |-> NoSaveDirs, idx |-> 0, step |-> "conf",
     confs |-> {}, scripts |-> {}, jobs |-> {}]

UnchangedRun ==
    /\ UNCHANGED <<cfg, pc, model, disk, complete, resaved>>
    /\ UNCHANGED trainVars
    /\ UNCHANGED measVars
    /\ UNCHANGED ctorVars

\* time passes while the submission runs
Tick ==
    /\ sub.stage \in {"start", "parsed", "materializing", "submitting"}
    /\ sub.now < MaxTicks
    /\ sub' = [sub EXCEPT !.now = @ + 1]
    /\ UnchangedRun

ParseMatrix ==
    /\ sub.stage = "start"
    /\ sub' = [sub EXCEPT !.stage = "parsed",
                          !.configs_with_path = ParseConfigMatrix(sub.axes)]
    /\ UnchangedRun

ParseRaises ==
    /\ sub.stage = "start"
    /\ sub' = [sub EXCEPT !.stage = "failed"]
    /\ UnchangedRun

MakeBaseSavedir ==
    /\ sub.stage = "parsed"
    /\ sub' = [sub EXCEPT !.stage = "materializing",
                          !.base_savedir = SaveDirs(ParentSavedir, sub.now)]
    /\ UnchangedRun

WriteConf ==
    /\ sub.stage = "materializing"
    /\ sub.idx < Len(sub.configs_with_path)
    /\ sub.step = "conf"
    /\ LET pair == sub.configs_with_path[sub.idx + 1]
           run_savedir == Join(RunBase(sub), pair.rel_savedir)
           save_dir == RelPath(run_savedir, sub.base_savedir.root_dir)
       IN sub' = [sub EXCEPT !.step = "script",
                             !.confs = @ \cup {[idx |-> sub.idx, config |-> pair.config,
                                                rel_savedir |-> pair.rel_savedir,
                                                save_dir |-> save_dir,
                                                run_savedir |-> run_savedir]}]
    /\ UnchangedRun

WriteScript ==
    /\ sub.stage = "materializing"
    /\ sub.idx < Len(sub.configs_with_path)
    /\ sub.step = "script"
    /\ LET pair == sub.configs_with_path[sub.idx + 1]
           run_savedir == Join(RunBase(sub), pair.rel_savedir)
       IN sub' = [sub EXCEPT !.step = "conf",
                             !.idx = @ + 1,
                             !.scripts = @ \cup {[idx |-> sub.idx,
                                                  run_savedir |-> run_savedir]}]
    /\ UnchangedRun

MaterializeRaises ==
    /\ sub.stage = "materializing"
    /\ sub.idx < Len(sub.configs_with_path)
    /\ sub' = [sub EXCEPT !.stage = "failed"]
    /\ UnchangedRun

RunExperiments ==
    /\ SubmitReady(sub)
    /\ sub' = [sub EXCEPT !.stage = "submitting"]
    /\ UnchangedRun

SubmitJob ==
    /\ sub.stage = "submitting"
    /\ LET k == Cardinality(sub.jobs)
           n == Len(sub.configs_with_path)
       IN /\ k < n
          /\ sub' = [sub EXCEPT !.jobs = @ \cup {k},
                                !.stage = IF k + 1 = n THEN "submitted" ELSE @]
    /\ UnchangedRun

SubmitRaises ==
    /\ sub.stage = "submitting"
    /\ sub' = [sub EXCEPT !.stage = "submit_failed"]
    /\ UnchangedRun

InitSubmit ==
    /\ cfg \in ConstructConfigs
    /\ measures_setting = BoolSetting(TRUE)
    /\ measures = << >>
    /\ config_copied = FALSE
    /\ pc = "start"
    /\ start_epoch = 0
    /\ epoch = 0
    /\ batch = 0
    /\ loss_nan = FALSE
    /\ model = FreshModel
    /\ lr = 0
    /\ disk = NoFiles
    /\ train_status = "none"
    /\ complete = FALSE
    /\ resaved = FALSE
    /\ order = << >>
    /\ ci = 0
    /\ visited = << >>
    /\ meas_epoch = 0
    /\ mi = 0
    /\ results = << >>
    /\ all_measurements = << >>
    /\ sink = << >>
    /\ writes = 0
    /\ shared_cache = {}
    /\ cache_seen = {}
    /\ sub \in { StartSubmission(<<a, b>>) : a \in 1..MaxFirstAxis, b \in 1..MaxSecondAxis }

NextSubmit ==
    \/ Tick
    \/ ParseMatrix
    \/ ParseRaises
    \/ MakeBaseSavedir
    \/ WriteConf
    \/ WriteScript
    \/ MaterializeRaises
    \/ RunExperiments
    \/ SubmitJob
    \/ SubmitRaises

SpecSubmit == InitSubmit /\ [][NextSubmit]_vars

(***************************************************************************)
(* Vocabulary of the properties.                                           *)
(***************************************************************************)
InTrainingLoop == pc \in {"loop", "batch"}

InMeasurement == pc \in {"checkpoints", "measure", "done"}

EpochsOf(paths) == [i \in 1..Len(paths) |-> disk[paths[i]].epoch]

RECURSIVE Descending(_)
Descending(S) ==
    IF S = {} THEN << >> ELSE <<SetMax(S)>> \o Descending(S \ {SetMax(S)})

InPriorityList(e) == e \in Range(priority_checkpoints)

\* priority matches in the order of the priority list, then the others, descending
IntendedOrder(S) ==
    SelectSeq(priority_checkpoints, LAMBDA e : e \in S)
        \o Descending({e \in S : ~InPriorityList(e)})

IsPrefix(a, b) == Len(a) <= Len(b) /\ SubSeq(b, 1, Len(a)) = a

\* the reordering has been done by this process
Reordered == pc \in {"checkpoints", "measure", "done"} \/ (pc = "aborted" /\ visited # << >>)

Ids(m) == {m[i].id : i \in 1..Len(m)}

BadRecordAt(i) == results[i].rows > 0 /\ ~results[i].value

(***************************************************************************)
(* C1  Resume idempotence: once a train() call on the run has returned, a  *)
(* later train() call on the same run runs no epoch and saves nothing, so  *)
(* the checkpoints stay as the first call left them.                       *)
(***************************************************************************)
C1_ResumeIdempotence ==
    [][complete => (disk' = disk /\ ~InTrainingLoop')]_vars

(***************************************************************************)
(* C2  Checkpoint-before-state: every checkpoint of a log epoch E holds    *)
(* the model and optimizer state entering epoch E (epochs 0..E-1 applied,  *)
(* E schedule steps, nothing of epoch E), over all interruptions and       *)
(* resumes.                                                                *)
(***************************************************************************)
C2_CheckpointBeforeState ==
    \A p \in DOMAIN disk :
        disk[p].epoch \in cfg.log_epochs =>
            /\ p = FileName(disk[p].epoch)
            /\ disk[p].model = Entering(disk[p].epoch)
            /\ disk[p].lr = disk[p].epoch

\* a process that resumed from checkpoint 1 has saved the checkpoint of log epoch 2
C2_Witness ==
    /\ start_epoch = 1
    /\ epoch = 2
    /\ pc = "batch"
    /\ batch = 1
    /\ 2 \in cfg.log_epochs
    /\ FileName(2) \in DOMAIN disk

(***************************************************************************)
(* C3  Priority ordering: the checkpoints are visited priority epochs      *)
(* first, in the order of the priority list, then all others in descending *)
(* epoch order, for every set of saved checkpoints.                        *)
(***************************************************************************)
C3_PriorityOrdering ==
    Reordered =>
        /\ EpochsOf(order) = IntendedOrder(SavedEpochs(disk))
        /\ IsPrefix(visited, EpochsOf(order))

\* what the measurement pass has done so far agrees with its position
C4_CoverageInv ==
    /\ Reordered =>
        /\ Len(order) = Cardinality(DOMAIN disk)
        /\ Range(order) = DOMAIN disk
        /\ visited = SubSeq(EpochsOf(order), 1, Len(visited))
    /\ pc = "measure" => (Len(visited) = ci + 1 /\ Len(results) = mi /\ writes = ci)
    /\ pc = "checkpoints" =>
        /\ Len(visited) = ci
        /\ writes = ci
        /\ ci > 0 => (mi = NumMeasurers /\ Len(results) = NumMeasurers)
    /\ pc = "done" =>
        /\ Len(visited) = Cardinality(SavedEpochs(disk))
        /\ Range(visited) = SavedEpochs(disk)
        /\ writes = Len(visited)

\* the steps the measurement pass has left at most
C4_StepsLeft ==
    LET n == Cardinality(DOMAIN disk)
        perCheckpoint == NumMeasurers + 2
    IN  CASE pc = "trained" -> n * perCheckpoint + 2
          [] pc = "checkpoints" -> (n - ci) * perCheckpoint + 1
          [] pc = "measure" -> (n - ci - 1) * perCheckpoint + (NumMeasurers - mi) + 2
          [] OTHER -> 0

(***************************************************************************)
(* C4  Coverage: the reordering neither drops nor duplicates a checkpoint; *)
(* every checkpoint is loaded once, in the order of the list; when a       *)
(* checkpoint's table is written every measurer has run once for it, and   *)
(* one table is written per checkpoint; a pass that returns has visited    *)
(* every saved checkpoint exactly once.  The pass ends: every step lowers  *)
(* a bound on the steps left (it returns, or a bad record raises).         *)
(***************************************************************************)
C4_Coverage ==
    /\ []C4_CoverageInv
    /\ [](C4_StepsLeft >= 0)
    /\ [][C4_StepsLeft' < C4_StepsLeft]_vars

\* the pass has returned after visiting four checkpoints, two of them moved by the
\* reordering
C4_Witness ==
    /\ pc = "done"
    /\ Len(visited) = 4
    /\ writes = 4
    /\ {0, 10} \subseteq Range(visited)
    /\ visited # Descending(Range(visited))

(***************************************************************************)
(* C5  Divergence abort: a not-a-number loss at a batch of epoch k ends    *)
(* train() with an error in epoch k, without stepping the schedule and     *)
(* without a save; the aborted call takes no further step (the only thing  *)
(* that follows is a new process on the run directory).                    *)
(***************************************************************************)
C5_DivergenceAbort ==
    [][ /\ (pc = "batch" /\ loss_nan') =>
              (pc' = "aborted" /\ train_status' = "raised" /\ epoch' = epoch
                 /\ batch' = batch /\ lr' = lr /\ disk' = disk)
        /\ (pc = "aborted") => (pc' = "constructed" /\ disk' = disk) ]_vars

\* the abort happened in epoch 1, with a log epoch and the final save still ahead
C5_Witness ==
    /\ pc = "aborted"
    /\ train_status = "raised"
    /\ loss_nan
    /\ epoch = 1
    /\ 2 \in cfg.log_epochs
    /\ cfg.max_epochs = 3
    /\ FileName(2) \notin DOMAIN disk

(***************************************************************************)
(* C6  Resume selection: train() starts from the numerically greatest      *)
(* saved epoch, and from 0 when nothing is saved.                          *)
(***************************************************************************)
C6_ResumeSelection ==
    [][(pc = "constructed" /\ pc' # "constructed") =>
          start_epoch' = IF DOMAIN disk = {} THEN 0 ELSE SetMax(SavedEpochs(disk))]_vars

(***************************************************************************)
(* C7  Append-only checkpoints: save_model is never called for an epoch    *)
(* that already has a checkpoint.                                          *)
(***************************************************************************)
C7_AppendOnly == ~resaved

(***************************************************************************)
(* C8  Train-before-measure: within one process nothing of the measurement *)
(* pass (reordering, loading, measuring) happens unless train() has        *)
(* returned, normally or as a no-op; after an abort of train() nothing is  *)
(* measured.                                                               *)
(***************************************************************************)
C8_TrainBeforeMeasure ==
    /\ (InMeasurement \/ order # << >> \/ visited # << >> \/ results # << >>) =>
            train_status \in {"returned", "noop"}
    /\ train_status = "raised" => pc = "aborted"

\* measurers have run in a process whose train() was an already-complete no-op
C8_Witness ==
    /\ pc = "measure"
    /\ mi = 1
    /\ train_status = "noop"
    /\ Len(visited) = 2

\* a bad record is the last thing its do_measurements call did
C9_RecordValidationInv ==
    \A i \in 1..Len(results) :
        BadRecordAt(i) =>
            /\ pc = "aborted"
            /\ i = Len(results)
            /\ mi = i
            /\ writes = ci
            /\ Len(visited) = ci + 1
            /\ ~(\E j \in 1..Len(all_measurements) : all_measurements[j].id = i)

(***************************************************************************)
(* C9  Record validation: a non-empty record without a value column stops  *)
(* do_measurements at that measurer: no later measurer runs, nothing is    *)
(* written for that checkpoint and no later checkpoint is processed.       *)
(***************************************************************************)
C9_RecordValidation ==
    /\ []C9_RecordValidationInv
    /\ [][pc = "aborted" =>
            (pc' = "constructed" /\ disk' = disk /\ writes' = 0 /\ visited' = << >>)]_vars

\* the first measurer of the second checkpoint returned a bad record, with a
\* checkpoint still to visit
C9_Witness ==
    /\ pc = "aborted"
    /\ Len(results) = 1
    /\ BadRecordAt(1)
    /\ ci = 1
    /\ Len(order) = 3

\* a measurer whose record had no rows is in no mapping
C10_EmptyRecordInv ==
    \A i \in 1..Len(results) :
        results[i].rows = 0 =>
            /\ i \notin Ids(all_measurements)
            /\ (pc \in {"checkpoints", "done"} /\ writes > 0) => i \notin Ids(sink)

(***************************************************************************)
(* C10  Empty-record tolerance: a record with zero rows, with or without a *)
(* value column, does not abort; its measurer is absent from the mapping   *)
(* being built and from the mapping written; the next measurer and the     *)
(* remaining checkpoints are processed as they would be.                   *)
(***************************************************************************)
C10_EmptyRecord ==
    /\ []C10_EmptyRecordInv
    /\ [][(pc = "measure" /\ mi' = mi + 1 /\ results'[mi'].rows = 0) =>
            /\ pc' = "measure"
            /\ all_measurements' = all_measurements
            /\ order' = order /\ ci' = ci /\ visited' = visited
            /\ writes' = writes /\ sink' = sink]_vars

\* a table was written without the first measurer, whose record was empty and had
\* no value column, and with the second
C10_Witness ==
    /\ pc = "checkpoints"
    /\ writes = 1
    /\ results[1] = [rows |-> 0, value |-> FALSE]
    /\ Ids(sink) = {2}
    /\ Len(order) = 2

\* nothing of a run has happened: no copy of the configuration, no epoch, no
\* checkpoint, no measurement
NothingDone ==
    /\ pc \in {"start", "config_error"}
    /\ ~config_copied
    /\ measures = << >>
    /\ disk = NoFiles
    /\ model = FreshModel
    /\ lr = 0
    /\ train_status = "none"
    /\ order = << >>
    /\ visited = << >>
    /\ results = << >>
    /\ writes = 0

Constructed == pc \notin {"start", "config_error"}

\* measures is the collection names without its repetitions, in the order of the
\* first occurrences
NamedExactly(names) ==
    /\ Range(measures) = Range(names)
    /\ Len(measures) = Cardinality(Range(names))
    /\ \A i, j \in 1..Len(measures) :
          i < j => (\E a, b \in 1..Len(names) :
                      /\ a < b /\ names[a] = measures[i] /\ names[b] = measures[j]
                      /\ \A c \in 1..(a - 1) : names[c] # measures[i])

C11_ResolutionInv(unrecognized) ==
    /\ unrecognized => NothingDone
    /\ Constructed =>
        /\ config_copied
        /\ measures_setting = [kind |-> "bool", val |-> TRUE] =>
              (Len(measures) = NumMeasurers /\ \A i \in 1..NumMeasurers : measures[i] = i)
        /\ measures_setting.kind = "list" => NamedExactly(measures_setting.val)

\* the setting is a string that is not one of the two preset names as written
IsOtherString ==
    /\ measures_setting.kind = "str"
    /\ measures_setting.val \notin {<<102, 97, 115, 116>>, <<115, 108, 111, 119>>}

\* the setting is a string that is not one of the two preset names in any letter case
IsOtherStringAnyCase ==
    /\ measures_setting.kind = "str"
    /\ Lower(measures_setting.val) \notin {<<102, 97, 115, 116>>, <<115, 108, 111, 119>>}

(***************************************************************************)
(* C11 as stated  Preset resolution fails fast: with a measures setting    *)
(* that is a string other than "fast" or "slow" the construction fails     *)
(* before the configuration is copied and before any epoch, save or        *)
(* measurement; true resolves to all known measurers, a collection to      *)
(* exactly the named ones.                                                 *)
(***************************************************************************)
C11_PresetResolutionAsWritten ==
    /\ []C11_ResolutionInv(IsOtherString)
    /\ [][(pc = "start" /\ IsOtherString) => pc' = "config_error"]_vars

(***************************************************************************)
(* C11  Preset resolution fails fast: with a measures setting that is a    *)
(* string other than "fast" or "slow" compared without regard to letter    *)
(* case, the construction fails before the configuration is copied and     *)
(* before any epoch, save or measurement; true resolves to all known       *)
(* measurers, a collection to exactly the named ones.                      *)
(***************************************************************************)
C11_PresetResolution ==
    /\ []C11_ResolutionInv(IsOtherStringAnyCase)
    /\ [][(pc = "start" /\ IsOtherStringAnyCase) => pc' = "config_error"]_vars

\* the construction with measures: "fastest" has failed
C11_Witness ==
    /\ pc = "config_error"
    /\ measures_setting = [kind |-> "str", val |-> <<102, 97, 115, 116, 101, 115, 116>>]
    /\ ~config_copied

\* the runs of the submission, numbered as main() enumerates them
RunIndices == 0..(sub.axes[1] * sub.axes[2] - 1)

\* every run's configuration file and launch script is written
AllMaterialized ==
    /\ Len(sub.configs_with_path) = sub.axes[1] * sub.axes[2]
    /\ \A k \in RunIndices :
          /\ \E c \in sub.confs : c.idx = k
          /\ \E sc \in sub.scripts : sc.idx = k

(***************************************************************************)
(* C12  Expansion before submission: a job is submitted only after the     *)
(* whole matrix is expanded and every run's configuration file and launch  *)
(* script is written; nothing is written before the expansion is whole;    *)
(* after a failure of the expansion or of the materialization of a run no  *)
(* job is submitted.                                                       *)
(***************************************************************************)
C12_ExpansionBeforeSubmission ==
    /\ (sub.jobs # {} \/ sub.stage \in {"submitting", "submitted", "submit_failed"})
          => AllMaterialized
    /\ (sub.confs # {} \/ sub.scripts # {})
          => Len(sub.configs_with_path) = sub.axes[1] * sub.axes[2]
    /\ sub.stage \in {"start", "parsed", "materializing", "failed"} => sub.jobs = {}

\* the materialization of a run failed after an earlier run was written
C12_Witness ==
    /\ sub.stage = "failed"
    /\ sub.scripts # {}
    /\ sub.jobs = {}

\* the directory a run directory lies in: the run directory without the run's
\* relative save directory
ParentOf(c) == SubSeq(c.run_savedir, 1, Len(c.run_savedir) - Len(c.rel_savedir))

Disjoint(a, b) ==
    /\ ~(Len(a) <= Len(b) /\ SubSeq(b, 1, Len(a)) = a)
    /\ ~(Len(b) <= Len(a) /\ SubSeq(a, 1, Len(b)) = b)

(***************************************************************************)
(* C13  Fan-out layout: when the N expanded configurations are submitted   *)
(* there are exactly N run directories, N launch scripts with the indices  *)
(* 0..N-1 and N jobs; all run directories lie in one parent directory,     *)
(* whose timestamp was taken once; the N save directories are pairwise     *)
(* disjoint.                                                               *)
(***************************************************************************)
C13_FanOutLayout ==
    sub.stage = "submitted" =>
        LET N == sub.axes[1] * sub.axes[2] IN
        /\ Len(sub.configs_with_path) = N
        /\ Cardinality({c.run_savedir : c \in sub.confs}) = N
        /\ Cardinality(sub.confs) = N
        /\ Cardinality(sub.scripts) = N
        /\ {sc.idx : sc \in sub.scripts} = 0..(N - 1)
        /\ \A sc \in sub.scripts : \E c \in sub.confs :
              c.idx = sc.idx /\ c.run_savedir = sc.run_savedir
        /\ sub.jobs = 0..(N - 1)
        /\ Cardinality({ParentOf(c) : c \in sub.confs}) = 1
        /\ \A c \in sub.confs :
              /\ ParentOf(c) = sub.base_savedir.base
              /\ c.run_savedir = sub.base_savedir.root_dir \o c.save_dir
        /\ \A c1, c2 \in sub.confs :
              c1 # c2 => (Disjoint(c1.save_dir, c2.save_dir)
                          /\ Disjoint(c1.run_savedir, c2.run_savedir))

\* a 3 x 2 matrix is submitted as 6 jobs, and time has passed since the parent
\* directory was made
C13_Witness ==
    /\ sub.stage = "submitted"
    /\ sub.axes = <<3, 2>>
    /\ Cardinality(sub.jobs) = 6
    /\ Cardinality({c.save_dir : c \in sub.confs}) = 6
    /\ \E c \in sub.confs : ParentOf(c)[Len(ParentOf(c))].v < sub.now

\* the checkpoint of epoch e is in the run directory
HasCheckpoint(e) == \E p \in DOMAIN disk : disk[p].epoch = e

(***************************************************************************)
(* C14  Checkpoint completeness across resumes: when a train() call has    *)
(* returned, after any number of earlier processes that were killed or     *)
(* aborted at any point, the run directory holds the checkpoint of         *)
(* max_epochs and of every log epoch below max_epochs, and the model that  *)
(* train() returns with has every epoch 0..max_epochs-1 applied exactly    *)
(* once and nothing else.                                                  *)
(***************************************************************************)
C14_CheckpointCompleteness ==
    train_status \in {"returned", "noop"} =>
        /\ HasCheckpoint(cfg.max_epochs)
        /\ \A e \in cfg.log_epochs : e < cfg.max_epochs => HasCheckpoint(e)
        /\ pc = "trained" => model = [done |-> cfg.max_epochs, part |-> 0, ok |-> TRUE]

\* a process that resumed from checkpoint 2 of 3 epochs has returned from train()
C14_Witness ==
    /\ train_status = "returned"
    /\ cfg.max_epochs = 3
    /\ cfg.log_epochs = {1, 2}
    /\ start_epoch = 2
    /\ pc = "trained"

(***************************************************************************)
(* C15  Priority matching is by epoch value: the checkpoints visited       *)
(* first are exactly those whose epoch is one of 600, 300, 100, 10, 1, 0;  *)
(* every checkpoint of another epoch (1000, 1100, ...) comes after them,   *)
(* among the remaining checkpoints in descending epoch order, and the      *)
(* priority checkpoints keep the positions they have without it.           *)
(***************************************************************************)
C15_MatchByEpochValue ==
    Reordered =>
        LET es == EpochsOf(order)
            prio == {i \in 1..Len(es) : es[i] \in {600, 300, 100, 10, 1, 0}}
        IN /\ \A i \in prio : \A j \in (1..Len(es)) \ prio : i < j
           /\ \A i \in prio :
                 i = 1 + Cardinality({j \in prio : \E a, b \in 1..Len(priority_checkpoints) :
                                         /\ priority_checkpoints[a] = es[j]
                                         /\ priority_checkpoints[b] = es[i]
                                         /\ a < b})
           /\ \A i, j \in (1..Len(es)) \ prio : i < j => es[i] > es[j]

(***************************************************************************)
(* C16  Already-complete no-op: a train() call that is entered with        *)
(* start_epoch >= max_epochs, with or without a checkpoint, runs no epoch, *)
(* steps no learning-rate schedule and saves no checkpoint.                *)
(***************************************************************************)
C16_AlreadyCompleteNoOp ==
    [][(/\ pc \in {"constructed", "loop", "batch"}
        /\ train_status' \in {"running", "noop", "returned"}
        /\ start_epoch' >= cfg.max_epochs)
       => (/\ disk' = disk
           /\ pc' # "batch"
           /\ (pc # "constructed" => lr' = lr))]_vars

(***************************************************************************)
(* C17  Learning-rate schedule stepping: in train() the schedule is        *)
(* stepped once at the end of every completed epoch and at no other step,  *)
(* so the loop is at epoch E with E steps taken and every checkpoint E     *)
(* holds a schedule stepped E times, also in a process that resumed.       *)
(***************************************************************************)
C17_ScheduleStepping ==
    /\ [](/\ pc \in {"loop", "batch"} => lr = epoch
          /\ \A p \in DOMAIN disk : disk[p].lr = disk[p].epoch)
    /\ [][(pc \in {"loop", "batch"} /\ pc' \in {"loop", "batch", "trained", "aborted"})
          => IF pc = "batch" /\ pc' = "loop"
             THEN lr' = lr + 1 /\ epoch' = epoch + 1
             ELSE lr' = lr /\ epoch' = epoch]_vars

\* a process that resumed from checkpoint 1 saved checkpoint 2, trained epoch 2
\* and stepped the schedule
C17_Witness ==
    /\ start_epoch = 1
    /\ pc = "loop"
    /\ epoch = 3
    /\ lr = 3
    /\ 2 \in cfg.log_epochs
    /\ HasCheckpoint(2)

\* the measurers among the first n whose record has rows
NonEmptyAmong(n) == {i \in 1..n : results[i].rows # 0}

\* mapping holds one record for every measurer among the first n that returned
\* rows, in the order the measurers ran, each with the epoch column e
HoldsStamped(mapping, n, e) ==
    /\ Len(mapping) = Cardinality(NonEmptyAmong(n))
    /\ \A k \in 1..Len(mapping) :
          /\ DOMAIN mapping[k] = {"id", "epoch"}
          /\ mapping[k].epoch = e
          /\ \E i \in NonEmptyAmong(n) :
                /\ Cardinality({j \in NonEmptyAmong(n) : j <= i}) = k
                /\ mapping[k].id = measures[i]

C18_OutputInv ==
    /\ pc = "measure" =>
          /\ writes = ci
          /\ Len(visited) = ci + 1
          /\ meas_epoch = visited[ci + 1]
          /\ meas_epoch = disk[order[ci + 1]].epoch
          /\ HoldsStamped(all_measurements, mi, meas_epoch)
    /\ pc = "checkpoints" =>
          /\ writes = ci
          /\ Len(visited) = ci
          /\ ci > 0 =>
                /\ mi = Len(measures)
                /\ sink = all_measurements
                /\ HoldsStamped(sink, Len(measures), visited[ci])

(***************************************************************************)
(* C18  Per-checkpoint output: for every visited checkpoint the sink is    *)
(* written once, after the last measurer of that checkpoint and before     *)
(* the next checkpoint is loaded; what is written holds exactly the        *)
(* measurers that returned rows, in the order they ran, each with the      *)
(* epoch of the checkpoint just loaded as its epoch column, epoch 0        *)
(* included.                                                               *)
(***************************************************************************)
C18_PerCheckpointOutput ==
    /\ []C18_OutputInv
    /\ [][(pc \in {"checkpoints", "measure"} /\ (writes' # writes \/ sink' # sink)
              /\ pc' \notin {"killed"})
          => (/\ pc = "measure"
              /\ mi = Len(measures)
              /\ writes' = writes + 1
              /\ sink' = all_measurements
              /\ pc' = "checkpoints"
              /\ ci' = ci + 1
              /\ visited' = visited)]_vars

\* the checkpoint of epoch 0 is written with the second measurer's record only
C18_Witness ==
    /\ pc = "checkpoints"
    /\ ci > 0
    /\ visited[ci] = 0
    /\ results[1].rows = 0
    /\ sink = <<[id |-> measures[2], epoch |-> 0]>>
    /\ writes = ci

\* the entries the first n measurers of this invocation have written
WrittenBy(n) == {[by |-> measures[i], at |-> meas_epoch] : i \in 1..n}

(***************************************************************************)
(* C19  Cache scoping: while a checkpoint is measured the shared cache     *)
(* holds exactly the entries written by the measurers that have run for    *)
(* this checkpoint: it is empty before the first measurer, every measurer  *)
(* is called with the entries of the measurers before it, and no entry     *)
(* written for another checkpoint is in it.                                *)
(***************************************************************************)
C19_CacheScoping ==
    pc = "measure" =>
        /\ shared_cache = WrittenBy(mi)
        /\ \A en \in shared_cache : en.at = visited[Len(visited)]
        /\ mi > 0 => cache_seen = WrittenBy(mi - 1)

\* the second measurer of a later checkpoint was called with the entry of the
\* first measurer of that checkpoint alone
C19_Witness ==
    /\ pc = "measure"
    /\ ci > 0
    /\ mi = 2
    /\ cache_seen = {[by |-> measures[1], at |-> meas_epoch]}
    /\ visited[1] # meas_epoch

====
